---- MODULE Spec2Model ----
(***************************************************************************)
(* Model of the MASM VS Code extension (trailofbits/vscode-masm):          *)
(*   - TreeSitterSemanticTokensProvider (src/src/decorations.ts 171-453):  *)
(*     capture classification, ordering, overlap resolution and the token  *)
(*     wire format;                                                        *)
(*   - updateInlayHintDecorations and friends (src/src/decorations.ts      *)
(*     1-169): per-line aggregation of inlay hints into decorations.       *)
(***************************************************************************)
EXTENDS Integers, Sequences, FiniteSets, TLC

(***************************************************************************)
(* Bounds of the model.                                                    *)
(***************************************************************************)
\* number of captures one query run supplies
MaxCaptures == 2
\* number of dot-delimited parts of a capture name
MaxNameParts == 3
\* number of hints in one inlay-hint response
MaxHints == 2
\* number of inlay-hint requests sent in one behaviour
MaxRequests == 2
\* number of invocations of masm.restartServer in one behaviour
MaxStarts == 2
\* number of invocations of the toggle commands in one behaviour
MaxToggles == 2

VARIABLES
  \* ---- TreeSitterSemanticTokensProvider ----
  initPromise,         \* "pending" | "resolved" | "rejected"  (this.initPromise)
  parser,              \* TRUE when this.parser is set
  query,               \* TRUE when this.query is set
  text,                \* document.getText(), as the lengths of its lines
  parseResult,         \* what parser.parse(text) does: "throws" | "null" | "tree"
  queryThrows,         \* TRUE when query.captures(tree.rootNode) throws
  captures,            \* what query.captures returns, in the order supplied
  processedPositions,  \* claimed ranges at the end of the call
  builderData,         \* tokens pushed to the SemanticTokensBuilder, in push order
  tokens,              \* integer array the call returned
  outcome              \* "none" | "returned" | "threw": how the call ended

tokVars == <<initPromise, parser, query, text, parseResult, queryThrows, captures,
             processedPositions, builderData, tokens, outcome>>

VARIABLES
  \* ---- inlay hint decorations ----
  hintType,            \* setting masm-lsp.inlayHints.type
  alignColumn,         \* setting masm-lsp.inlayHints.position
  minPadding,          \* setting masm-lsp.inlayHints.minimumPadding
  client,              \* TRUE when getClient() returns a client
  editorDecorations,   \* per editor: the list last given to editor.setDecorations
  documentDecorations, \* the Map documentDecorations: uri -> decoration list
  inflight,            \* calls of updateInlayHintDecorations awaiting sendRequest
  started,             \* number of calls that sent a request
  applied              \* per editor: what the last finished call was given,
                       \* the request it answered and the lines decorated before it

hintVars == <<hintType, alignColumn, minPadding, client, editorDecorations,
              documentDecorations, inflight, started, applied>>

VARIABLES
  \* ---- language client (client.ts, utils.ts) ----
  clientRef,           \* the module variable client: 0 when undefined, else the
                       \* number of the LanguageClient it refers to
  clientState,         \* per LanguageClient: "unused" | "starting" | "running" |
                       \* "stopped" | "failed"
  restarts,            \* invocations of masm.restartServer that have not returned
  invocations,         \* number of invocations of masm.restartServer so far
  prompts,             \* number of times the stdlib input box was shown
  cached,              \* TRUE when globalState holds "masmStdlibPath"
  resolvable           \* TRUE when masm-lsp.stdlibPath is set or the miden-vm root
                       \* can be inferred from the workspace

clientVars == <<clientRef, clientState, restarts, invocations, prompts, cached,
                resolvable>>

VARIABLES
  \* ---- commands and document events (commands, extension.ts) ----
  loops,               \* running calls of updateAllVisibleEditors
  loopCount,           \* number of calls of updateAllVisibleEditors so far
  toggling,            \* toggle commands between the configuration update and
                       \* the clearing or refreshing of the editors
  toggles,             \* per finished or running toggle command: what it read,
                       \* what it wrote and whether it has applied it
  closed               \* documents that have been closed

sessionVars == <<loops, loopCount, toggling, toggles, closed>>

VARIABLES
  \* ---- debounced refresh (extension.ts) ----
  updateTimeout,       \* the editor the pending timer is for, "none" without timer
  dirty,               \* per editor: TRUE from a text change to the start of the
                       \* next refresh of the editor
  edits                \* number of text changes so far

debounceVars == <<updateTimeout, dirty, edits>>

\* the variables beside those of the token provider and of the hint refresh
extraVars == <<clientVars, sessionVars, debounceVars>>

vars == <<tokVars, hintVars, extraVars>>

(***************************************************************************)
(* Generic helpers.                                                        *)
(***************************************************************************)
RECURSIVE Pow2(_)
Pow2(n) == IF n = 0 THEN 1 ELSE 2 * Pow2(n - 1)

RECURSIVE SumSet(_)
SumSet(S) == IF S = {} THEN 0
             ELSE LET x == CHOOSE y \in S : TRUE IN x + SumSet(S \ {x})

(***************************************************************************)
(* Classification tables (captureToSemanticToken, tokenTypes,              *)
(* tokenModifiers).  A capture name is the sequence of its dot-delimited   *)
(* parts: "function.method" is <<"function", "method">>.                   *)
(***************************************************************************)
tokenTypes ==
  << "comment", "keyword", "namespace", "variable", "function", "method",
     "decorator", "property", "string", "number", "operator", "punctuation" >>

tokenModifiers == << "documentation", "readonly", "declaration" >>

NoMapping == [type |-> "undefined", modifiers |-> <<>>, defined |-> FALSE]

Mapping(t, m) == [type |-> t, modifiers |-> m, defined |-> TRUE]

captureToSemanticToken ==
  ( <<"comment", "doc">>               :> Mapping("comment", <<"documentation">>) ) @@
  ( <<"comment">>                      :> Mapping("comment", <<>>) ) @@
  ( <<"keyword">>                      :> Mapping("keyword", <<>>) ) @@
  ( <<"module">>                       :> Mapping("namespace", <<>>) ) @@
  ( <<"constant">>                     :> Mapping("variable", <<"readonly", "declaration">>) ) @@
  ( <<"function">>                     :> Mapping("function", <<>>) ) @@
  ( <<"function", "method">>           :> Mapping("method", <<>>) ) @@
  ( <<"attribute">>                    :> Mapping("decorator", <<>>) ) @@
  ( <<"property">>                     :> Mapping("property", <<>>) ) @@
  ( <<"string", "special", "symbol">>  :> Mapping("string", <<>>) ) @@
  ( <<"number">>                       :> Mapping("number", <<>>) ) @@
  ( <<"string">>                       :> Mapping("string", <<>>) ) @@
  ( <<"operator">>                     :> Mapping("operator", <<>>) ) @@
  ( <<"punctuation", "delimiter">>     :> Mapping("punctuation", <<>>) ) @@
  ( <<"punctuation", "list_marker">>   :> Mapping("punctuation", <<>>) ) @@
  ( <<"punctuation", "bracket">>       :> Mapping("punctuation", <<>>) )

\* Array.prototype.indexOf on a list of strings: 0-based position, -1 when absent
IndexOf(list, x) ==
  IF \E i \in 1..Len(list) : list[i] = x
  THEN (CHOOSE i \in 1..Len(list) : list[i] = x /\ \A j \in 1..(i - 1) : list[j] # x) - 1
  ELSE -1

\* parts.slice(0, i + 1).join(".") for the 0-based i of the loop
Partial(parts, i) == SubSeq(parts, 1, i + 1)

\* a lookup that stops at the shortest prefix that is a key
PrefixLookupShortestFirst(parts, i) ==
  LET hits == { k \in 0..i : Partial(parts, k) \in DOMAIN captureToSemanticToken }
  IN  IF hits = {} THEN NoMapping
      ELSE captureToSemanticToken[Partial(parts, CHOOSE k \in hits : \A h \in hits : k <= h)]

\* the for loop of getTokenMapping, from i downwards
RECURSIVE PrefixLookup(_, _)
PrefixLookup(parts, i) ==
  IF i < 0 THEN NoMapping
  ELSE IF Partial(parts, i) \in DOMAIN captureToSemanticToken
       THEN captureToSemanticToken[Partial(parts, i)]
       ELSE PrefixLookup(parts, i - 1)

getTokenMapping(captureName) ==
  IF captureName \in DOMAIN captureToSemanticToken
  THEN captureToSemanticToken[captureName]
  ELSE PrefixLookup(captureName, Len(captureName) - 1)

\* bits numbered by the position in the entry's own modifier list
encodeModifiersByOwnPosition(modifiers) ==
  SumSet({ Pow2(k - 1) : k \in 1..Len(modifiers) })

\* result |= 1 << idx over the modifiers whose idx >= 0
encodeModifiers(modifiers) ==
  LET idxs == { IndexOf(tokenModifiers, modifiers[k]) : k \in 1..Len(modifiers) }
  IN  SumSet({ Pow2(idx) : idx \in { j \in idxs : j >= 0 } })

(***************************************************************************)
(* Documents and captures.                                                 *)
(***************************************************************************)
\* text.split("\n"): line r of the document is lines[r + 1]; only lengths matter
LineLength(lines, row) ==
  IF row + 1 \in DOMAIN lines THEN lines[row + 1] ELSE 0

\* offset of (row, column) in the text: every earlier line plus its "\n"
RECURSIVE OffsetOfRow(_, _)
OffsetOfRow(lines, row) ==
  IF row <= 0 THEN 0
  ELSE OffsetOfRow(lines, row - 1) + LineLength(lines, row - 1) + 1

IndexOfPosition(lines, row, col) == OffsetOfRow(lines, row) + col

\* a QueryCapture: name and the node's start/end position and start/end index
Capture(lines, name, sr, sc, er, ec) ==
  [ name |-> name, startRow |-> sr, startCol |-> sc, endRow |-> er, endCol |-> ec,
    startIndex |-> IndexOfPosition(lines, sr, sc),
    endIndex |-> IndexOfPosition(lines, er, ec) ]

(***************************************************************************)
(* captures.sort(comparator): Array.prototype.sort is stable.              *)
(***************************************************************************)
\* a comparator that prefers the larger range on equal starts
compareCapturesLongerFirst(a, b) ==
  IF a.startRow # b.startRow THEN a.startRow - b.startRow
  ELSE IF a.startCol # b.startCol THEN a.startCol - b.startCol
  ELSE (b.endIndex - b.startIndex) - (a.endIndex - a.startIndex)

\* a comparator without the specificity tie-break
compareCapturesStartOnly(a, b) ==
  IF a.startRow # b.startRow THEN a.startRow - b.startRow
  ELSE a.startCol - b.startCol

compareCaptures(a, b) ==
  IF a.startRow # b.startRow THEN a.startRow - b.startRow
  ELSE IF a.startCol # b.startCol THEN a.startCol - b.startCol
  ELSE (a.endIndex - a.startIndex) - (b.endIndex - b.startIndex)

\* an unstable sort: x goes before the elements it ties with
RECURSIVE InsertCaptureBeforeEqual(_, _)
InsertCaptureBeforeEqual(sorted, x) ==
  IF sorted = <<>> THEN <<x>>
  ELSE IF compareCaptures(Head(sorted), x) < 0
       THEN <<Head(sorted)>> \o InsertCaptureBeforeEqual(Tail(sorted), x)
       ELSE <<x>> \o sorted

\* insert x after every element that does not compare greater than it
RECURSIVE InsertCapture(_, _)
InsertCapture(sorted, x) ==
  IF sorted = <<>> THEN <<x>>
  ELSE IF compareCaptures(Head(sorted), x) <= 0
       THEN <<Head(sorted)>> \o InsertCapture(Tail(sorted), x)
       ELSE <<x>> \o sorted

RECURSIVE sortCaptures(_)
sortCaptures(caps) ==
  IF caps = <<>> THEN <<>>
  ELSE InsertCapture(sortCaptures(SubSeq(caps, 1, Len(caps) - 1)), caps[Len(caps)])

(***************************************************************************)
(* Overlap bookkeeping and the walk over the sorted captures.              *)
(***************************************************************************)
\* an overlap test that only sees ranges with the same start column
isOverlappingSameStart(processed, row, startCol, endCol) ==
  \E i \in 1..Len(processed) :
     /\ processed[i].row = row
     /\ startCol = processed[i].startCol

isOverlapping(processed, row, startCol, endCol) ==
  \E i \in 1..Len(processed) :
     /\ processed[i].row = row
     /\ startCol < processed[i].endCol
     /\ endCol > processed[i].startCol

markProcessed(processed, row, startCol, endCol) ==
  Append(processed, [row |-> row, startCol |-> startCol, endCol |-> endCol])

\* builder.push(line, char, length, tokenType, tokenModifiers)
builderPush(data, line, char, length, mapping) ==
  Append(data, [ line |-> line, char |-> char, length |-> length,
                 type |-> IndexOf(tokenTypes, mapping.type),
                 mods |-> encodeModifiers(mapping.modifiers) ])

\* a candidate pushed without the "length > 0" test
emitPieceNoLengthCheck(st, row, startCol, endCol, mapping) ==
  IF ~isOverlapping(st.processed, row, startCol, endCol)
  THEN [ processed |-> markProcessed(st.processed, row, startCol, endCol),
         data |-> builderPush(st.data, row, startCol, endCol - startCol, mapping) ]
  ELSE st

\* one candidate range: pushed and claimed when non-empty and free
emitPiece(st, row, startCol, endCol, mapping) ==
  IF endCol - startCol > 0 /\ ~isOverlapping(st.processed, row, startCol, endCol)
  THEN [ processed |-> markProcessed(st.processed, row, startCol, endCol),
         data |-> builderPush(st.data, row, startCol, endCol - startCol, mapping) ]
  ELSE st

\* a multi-line loop that stops at the first line it cannot claim
RECURSIVE emitLinesUntilCollision(_, _, _, _, _)
emitLinesUntilCollision(st, lines, cap, row, mapping) ==
  IF row > cap.endRow THEN st
  ELSE LET startCol == IF row = cap.startRow THEN cap.startCol ELSE 0
           endCol   == IF row = cap.endRow THEN cap.endCol ELSE LineLength(lines, row)
       IN  IF endCol - startCol > 0 /\ isOverlapping(st.processed, row, startCol, endCol)
           THEN st
           ELSE emitLinesUntilCollision(emitPiece(st, row, startCol, endCol, mapping),
                                        lines, cap, row + 1, mapping)

\* the inner for loop of the multi-line branch, from row to capture.endRow
RECURSIVE emitLines(_, _, _, _, _)
emitLines(st, lines, cap, row, mapping) ==
  IF row > cap.endRow THEN st
  ELSE LET startCol == IF row = cap.startRow THEN cap.startCol ELSE 0
           endCol   == IF row = cap.endRow THEN cap.endCol ELSE LineLength(lines, row)
       IN  emitLines(emitPiece(st, row, startCol, endCol, mapping),
                     lines, cap, row + 1, mapping)

\* a loop body that pushes only the first line of a multi-line capture
processCaptureFirstLineOnly(st, lines, cap) ==
  LET mapping == getTokenMapping(cap.name)
  IN  IF ~mapping.defined THEN st
      ELSE IF cap.startRow = cap.endRow
           THEN emitPiece(st, cap.startRow, cap.startCol, cap.endCol, mapping)
           ELSE emitPiece(st, cap.startRow, cap.startCol,
                          LineLength(lines, cap.startRow), mapping)

\* body of "for (const capture of captures)"
processCapture(st, lines, cap) ==
  LET mapping == getTokenMapping(cap.name)
  IN  IF ~mapping.defined THEN st
      ELSE IF cap.startRow = cap.endRow
           THEN emitPiece(st, cap.startRow, cap.startCol, cap.endCol, mapping)
           ELSE emitLines(st, lines, cap, cap.startRow, mapping)

RECURSIVE walkCaptures(_, _, _)
walkCaptures(st, lines, caps) ==
  IF caps = <<>> THEN st
  ELSE walkCaptures(processCapture(st, lines, Head(caps)), lines, Tail(caps))

(***************************************************************************)
(* vscode.SemanticTokensBuilder.build(): tokens pushed out of order are     *)
(* sorted by (line, char), then every token is delta-encoded into 5         *)
(* integers.  On a sorted list every delta is non-negative, so the          *)
(* Uint32Array stores the integers unchanged.                               *)
(***************************************************************************)
tokenBefore(a, b) ==
  IF a.line = b.line THEN a.char - b.char ELSE a.line - b.line

RECURSIVE InsertToken(_, _)
InsertToken(sorted, x) ==
  IF sorted = <<>> THEN <<x>>
  ELSE IF tokenBefore(Head(sorted), x) <= 0
       THEN <<Head(sorted)>> \o InsertToken(Tail(sorted), x)
       ELSE <<x>> \o sorted

RECURSIVE sortTokens(_)
sortTokens(data) ==
  IF data = <<>> THEN <<>>
  ELSE InsertToken(sortTokens(SubSeq(data, 1, Len(data) - 1)), data[Len(data)])

\* an encoding whose start column is always relative to the previous token
RECURSIVE deltaEncodeAlwaysRelative(_, _, _)
deltaEncodeAlwaysRelative(data, prevLine, prevChar) ==
  IF data = <<>> THEN <<>>
  ELSE LET t == Head(data)
       IN  << t.line - prevLine, t.char - prevChar, t.length, t.type, t.mods >>
           \o deltaEncodeAlwaysRelative(Tail(data), t.line, t.char)

RECURSIVE deltaEncode(_, _, _)
deltaEncode(data, prevLine, prevChar) ==
  IF data = <<>> THEN <<>>
  ELSE LET t == Head(data)
           deltaLine == t.line - prevLine
           deltaChar == IF deltaLine = 0 THEN t.char - prevChar ELSE t.char
       IN  << deltaLine, deltaChar, t.length, t.type, t.mods >>
           \o deltaEncode(Tail(data), t.line, t.char)

\* a build that keeps the push order
builderBuildUnsorted(data) == deltaEncode(data, 0, 0)

builderBuild(data) == deltaEncode(sortTokens(data), 0, 0)

\* new vscode.SemanticTokens(new Uint32Array(0))
EmptyTokens == <<>>

(***************************************************************************)
(* Inputs of the model.                                                    *)
(***************************************************************************)
\* the documents a call is given, as the lengths of their lines
Documents == { <<2, 1>> }

\* the document of the calls on nested captures and on named captures
LongDocument == <<2, 1, 1>>

\* the document of the calls on captures that start past column 1
WideDocument == <<3, 1>>

\* the points of a document: (row, column) with the column inside the line
\* or at its end
Points(lines) ==
  { p \in (0..(Len(lines) - 1)) \X (0..2) : p[2] <= LineLength(lines, p[1]) }

\* capture names the query can supply: classified exactly, by prefix, not at all
CaptureNames ==
  { <<"keyword">>, <<"function", "builtin">>, <<"variable", "parameter">> }

\* any two points make a node span, also an inverted or an empty one
CapturesOf(lines, names) ==
  { Capture(lines, n, s[1], s[2], e[1], e[2]) :
      n \in names, s \in Points(lines), e \in Points(lines) }

\* spans as a parser reports them: the end after the start
ForwardCapturesOf(lines, names) ==
  { c \in CapturesOf(lines, names) : c.startIndex < c.endIndex }

\* every span of the wide document whose end is after its start
WideCaptures ==
  { Capture(WideDocument, <<"keyword">>, s[1], s[2], e[1], e[2]) :
      s \in { <<0, 0>>, <<0, 1>>, <<0, 2>>, <<1, 0>> },
      e \in { <<0, 1>>, <<0, 2>>, <<0, 3>>, <<1, 0>>, <<1, 1>> } }

\* the parts capture names are made of in the name-lookup inputs
NameParts ==
  { "function", "method", "builtin", "comment", "doc", "documentation",
    "string", "special", "symbol", "punctuation", "bracket", "variable" }

(***************************************************************************)
(* TreeSitterSemanticTokensProvider: state machine.  A call does not read  *)
(* what an earlier call left behind, so one call per behaviour is          *)
(* modelled; its inputs are recorded as far as the call reads them.        *)
(***************************************************************************)
TokInit ==
  /\ initPromise = "pending"
  /\ parser = FALSE
  /\ query = FALSE
  /\ text = <<>>
  /\ parseResult = "none"
  /\ queryThrows = FALSE
  /\ captures = <<>>
  /\ processedPositions = <<>>
  /\ builderData = <<>>
  /\ tokens = EmptyTokens
  /\ outcome = "none"

\* initialize() runs to its end: parser and query are set
InitializeOk ==
  /\ UNCHANGED hintVars
  /\ initPromise = "pending"
  /\ initPromise' = "resolved"
  /\ parser' = TRUE
  /\ query' = TRUE
  /\ UNCHANGED <<text, parseResult, queryThrows, captures,
                 processedPositions, builderData, tokens, outcome>>

\* initialize() throws (wasm, grammar or query file) and rethrows the error;
\* the parser is already set when the failure comes after "new Parser()"
InitializeFail ==
  /\ UNCHANGED hintVars
  /\ initPromise = "pending"
  /\ initPromise' = "rejected"
  /\ parser' \in BOOLEAN
  /\ query' = FALSE
  /\ UNCHANGED <<text, parseResult, queryThrows, captures,
                 processedPositions, builderData, tokens, outcome>>

\* the call ends before the walk: an early return or a rejection
EndsWithout(lines, parsed, threw, how) ==
  /\ text' = lines
  /\ parseResult' = parsed
  /\ queryThrows' = threw
  /\ captures' = <<>>
  /\ processedPositions' = <<>>
  /\ builderData' = <<>>
  /\ tokens' = EmptyTokens
  /\ outcome' = how

\* what the walk and builder.build() make of a capture list
resolveCaptures(lines, caps) ==
  walkCaptures([processed |-> <<>>, data |-> <<>>], lines, sortCaptures(caps))

\* a parse failure that reaches the caller
parseFailedRethrow(lines, parsed) == EndsWithout(lines, parsed, FALSE, "threw")

\* the catch around parser.parse and the "!tree" return
parseFailed(lines, parsed) == EndsWithout(lines, parsed, FALSE, "returned")

\* the catch around query.captures
queryFailed(lines, parsed) == EndsWithout(lines, parsed, TRUE, "returned")

\* provideDocumentSemanticTokens(document, _token): lines is document.getText(),
\* parsed what parser.parse does ("throws", "null", "tree"), threw whether
\* query.captures throws, caps the captures it returns
provideDocumentSemanticTokens(lines, parsed, threw, caps) ==
  /\ UNCHANGED hintVars
  /\ initPromise # "pending"
  /\ outcome = "none"
  /\ UNCHANGED <<initPromise, parser, query>>
  /\ IF initPromise = "rejected" THEN EndsWithout(<<>>, "none", FALSE, "threw")
     ELSE IF ~parser \/ ~query THEN EndsWithout(<<>>, "none", FALSE, "returned")
     ELSE IF parsed # "tree" THEN parseFailed(lines, parsed)
     ELSE IF threw THEN queryFailed(lines, parsed)
     ELSE \E st \in {resolveCaptures(lines, caps)} :
            /\ text' = lines
            /\ parseResult' = parsed
            /\ queryThrows' = FALSE
            /\ captures' = caps
            /\ processedPositions' = st.processed
            /\ builderData' = st.data
            /\ tokens' = builderBuild(st.data)
            /\ outcome' = "returned"

\* the await of initPromise is over and the call has not run yet
CallReady(settled) ==
  /\ initPromise = settled
  /\ outcome = "none"

\* a call after initialize() failed: the await of initPromise rejects and
\* the document is never read
ProvideTokensUninitialized ==
  /\ CallReady("rejected")
  /\ provideDocumentSemanticTokens(<<>>, "none", FALSE, <<>>)

\* a call whose parse or query fails
ProvideTokensFailing ==
  /\ CallReady("resolved")
  /\ \E lines \in Documents :
       \E parsed \in {"throws", "null", "tree"} :
          provideDocumentSemanticTokens(lines, parsed, parsed = "tree", <<>>)

\* a call on up to MaxCaptures captures of any name and span
ProvideTokens ==
  /\ CallReady("resolved")
  /\ \E lines \in Documents, n \in 0..MaxCaptures :
       \E caps \in [1..n -> CapturesOf(lines, CaptureNames)] :
          provideDocumentSemanticTokens(lines, "tree", FALSE, caps)

\* a call on MaxCaptures + 1 nested or interleaved captures of one name
ProvideTokensNested ==
  /\ CallReady("resolved")
  /\ \E caps \in [1..(MaxCaptures + 1) -> ForwardCapturesOf(LongDocument, {<<"keyword">>})] :
        provideDocumentSemanticTokens(LongDocument, "tree", FALSE, caps)

\* a call on one capture of any name of up to MaxNameParts parts
ProvideTokensNamed ==
  /\ CallReady("resolved")
  /\ \E n \in 0..MaxNameParts :
       \E name \in [1..n -> NameParts] :
          provideDocumentSemanticTokens(LongDocument, "tree", FALSE,
                                        <<Capture(LongDocument, name, 0, 0, 0, 2)>>)

\* a call on MaxCaptures + 1 captures of a document with a line of 3 columns
ProvideTokensWide ==
  /\ CallReady("resolved")
  /\ \E caps \in [1..(MaxCaptures + 1) -> WideCaptures] :
        provideDocumentSemanticTokens(WideDocument, "tree", FALSE, caps)

\* a call on one capture named by a key of the classification table
ProvideTokensTable ==
  /\ CallReady("resolved")
  /\ \E name \in DOMAIN captureToSemanticToken :
       provideDocumentSemanticTokens(LongDocument, "tree", FALSE,
                                     <<Capture(LongDocument, name, 0, 0, 0, 2)>>)

TokNext ==
  \/ InitializeOk /\ UNCHANGED extraVars
  \/ InitializeFail /\ UNCHANGED extraVars
  \/ ProvideTokensUninitialized /\ UNCHANGED extraVars
  \/ ProvideTokensFailing /\ UNCHANGED extraVars
  \/ ProvideTokens /\ UNCHANGED extraVars
  \/ ProvideTokensNested /\ UNCHANGED extraVars
  \/ ProvideTokensNamed /\ UNCHANGED extraVars
  \/ ProvideTokensTable /\ UNCHANGED extraVars
  \/ ProvideTokensWide /\ UNCHANGED extraVars

(***************************************************************************)
(* Inlay hints: strings are sequences of characters.                       *)
(***************************************************************************)
\* U+00A0
NBSP == "nbsp"

\* U+0009
TAB == "tab"

\* the characters [\s\u00A0] matches, among those of the model
IsWhitespace(ch) == ch \in {" ", NBSP, TAB}

\* the match of /^[\s\u00A0]*/
RECURSIVE leadingWhitespaceOf(_)
leadingWhitespaceOf(str) ==
  IF str # <<>> /\ IsWhitespace(Head(str))
  THEN <<Head(str)>> \o leadingWhitespaceOf(Tail(str))
  ELSE <<>>

\* str.replace(/[\s\u00A0]+/g, " ")
RECURSIVE collapseWhitespace(_)
collapseWhitespace(str) ==
  IF str = <<>> THEN <<>>
  ELSE IF IsWhitespace(Head(str))
       THEN <<" ">> \o collapseWhitespace(
                         SubSeq(str, Len(leadingWhitespaceOf(str)) + 1, Len(str)))
       ELSE <<Head(str)>> \o collapseWhitespace(Tail(str))

RECURSIVE trimEnd(_)
trimEnd(str) ==
  IF str # <<>> /\ IsWhitespace(str[Len(str)])
  THEN trimEnd(SubSeq(str, 1, Len(str) - 1))
  ELSE str

\* String.prototype.trim
trim(str) == trimEnd(SubSeq(str, Len(leadingWhitespaceOf(str)) + 1, Len(str)))

\* Array.prototype.join
RECURSIVE join(_, _)
join(strs, sep) ==
  IF strs = <<>> THEN <<>>
  ELSE IF Len(strs) = 1 THEN strs[1]
  ELSE strs[1] \o sep \o join(Tail(strs), sep)

\* str.replace(/ /g, "\u00A0")
replaceSpaces(str) == [i \in 1..Len(str) |-> IF str[i] = " " THEN NBSP ELSE str[i]]

\* hint.label as a string, an array of parts, or something else
StringLabel(str) == [kind |-> "string", parts |-> <<str>>]

PartsLabel(parts) == [kind |-> "array", parts |-> parts]

\* the text of a label; usable is FALSE on the "continue" branch
labelTextOf(label) ==
  IF label.kind = "string" THEN [usable |-> TRUE, text |-> label.parts[1]]
  ELSE IF label.kind = "array" /\ Len(label.parts) > 0
       THEN [usable |-> TRUE, text |-> join(label.parts, <<>>)]
       ELSE [usable |-> FALSE, text |-> <<>>]

\* the Map hintsByLine, as its entries in insertion order
RECURSIVE groupByLine(_, _)
groupByLine(hints, byLine) ==
  IF hints = <<>> THEN byLine
  ELSE LET hint == Head(hints)
           label == labelTextOf(hint.label)
       IN  IF ~label.usable THEN groupByLine(Tail(hints), byLine)
           ELSE IF \E i \in 1..Len(byLine) : byLine[i].line = hint.line
                THEN groupByLine(Tail(hints),
                       [i \in 1..Len(byLine) |->
                          IF byLine[i].line = hint.line
                          THEN [byLine[i] EXCEPT !.labels = Append(@, label.text)]
                          ELSE byLine[i]])
                ELSE groupByLine(Tail(hints),
                       Append(byLine, [line |-> hint.line, labels |-> <<label.text>>]))

\* a margin that also aligns a line that ends exactly at the column
marginOfUpToColumn(lineLength, align, padding) ==
  IF align > 0 /\ lineLength <= align THEN align - lineLength ELSE padding

marginOf(lineLength, align, padding) ==
  IF align > 0 /\ lineLength < align THEN align - lineLength ELSE padding

\* a text that keeps the indentation of every fragment
combinedTextKeepingEveryIndent(labelTexts) ==
  replaceSpaces(
    <<"#", " ">>
    \o join([i \in 1..Len(labelTexts) |->
               leadingWhitespaceOf(labelTexts[i])
               \o trim(collapseWhitespace(labelTexts[i]))],
            <<" ">>))

combinedTextOf(labelTexts) ==
  replaceSpaces(
    <<"#", " ">>
    \o leadingWhitespaceOf(labelTexts[1])
    \o join([i \in 1..Len(labelTexts) |-> trim(collapseWhitespace(labelTexts[i]))],
            <<" ">>))

\* document.lineAt(line) throws for a line outside the document
lineAtThrows(lines, line) == line < 0 \/ line >= Len(lines)

decorationOf(lines, entry, align, padding) ==
  [ line |-> entry.line,
    character |-> lines[entry.line + 1],
    contentText |-> combinedTextOf(entry.labels),
    margin |-> marginOf(lines[entry.line + 1], align, padding) ]

\* the loop over hintsByLine: the decorations, or the throw of lineAt
decorationsOf(lines, hints, align, padding) ==
  LET byLine == groupByLine(hints, <<>>)
  IN  IF \E i \in 1..Len(byLine) : lineAtThrows(lines, byLine[i].line)
      THEN [threw |-> TRUE, decorations |-> <<>>]
      ELSE [threw |-> FALSE,
            decorations |-> [i \in 1..Len(byLine) |->
                               decorationOf(lines, byLine[i], align, padding)]]

(***************************************************************************)
(* Inputs of the hint model.                                               *)
(***************************************************************************)
\* the visible MASM editors, each named by the uri of its document
Editors == {"a.masm", "b.masm"}

\* the text of each document, as the lengths of its lines
DocumentLines == ("a.masm" :> <<10, 45>>) @@ ("b.masm" :> <<40>>)

\* settings <<inlayHints.position, inlayHints.minimumPadding>>
LayoutSettings == { <<0, 2>>, <<40, 2>>, <<41, 3>> }

HintTypes == {"none", "decompilation", "description"}

\* hint positions: inside the document, before it and past its end
HintLines == -1..1

\* "  b<nbsp><tab>c ", [<nbsp>a, b] and an empty array
HintLabels ==
  { StringLabel(<<" ", " ", "b", NBSP, TAB, "c", " ">>),
    PartsLabel(<< <<NBSP, "a">>, <<"b">> >>),
    PartsLabel(<<>>) }

HintsUniverse == [line : HintLines, label : HintLabels]

(***************************************************************************)
(* updateInlayHintDecorations: state machine.                              *)
(***************************************************************************)
\* the lines that carry a decoration
DecoratedLines(decorations) == { decorations[i].line : i \in 1..Len(decorations) }

\* no call of updateInlayHintDecorations has finished for the editor
NothingApplied == [kind |-> "none", hints |-> <<>>, id |-> 0, before |-> {}]

\* a call for the editor finishes: how, on which response, for which request
Finished(editor, kind, hints, id) ==
  [ kind |-> kind, hints |-> hints, id |-> id,
    before |-> DecoratedLines(editorDecorations[editor]) ]

\* no hint activity: the settings at their defaults
HintIdle ==
  /\ hintType = "none"
  /\ alignColumn = 40
  /\ minPadding = 2
  /\ client = FALSE
  /\ editorDecorations = [e \in Editors |-> <<>>]
  /\ documentDecorations = <<>>
  /\ inflight = {}
  /\ started = 0
  /\ applied = [e \in Editors |-> NothingApplied]

HintInit ==
  /\ hintType \in HintTypes
  /\ \E setting \in LayoutSettings :
        /\ alignColumn = setting[1]
        /\ minPadding = setting[2]
  /\ client \in BOOLEAN
  /\ editorDecorations = [e \in Editors |-> <<>>]
  /\ documentDecorations = <<>>
  /\ inflight = {}
  /\ started = 0
  /\ applied = [e \in Editors |-> NothingApplied]

\* a cache that keeps the entry of one document only
cacheSetDroppingOthers(cache, uri, list) == (uri :> list)

\* documentDecorations.set(uri, list)
cacheSet(cache, uri, list) ==
  [u \in (DOMAIN cache) \cup {uri} |-> IF u = uri THEN list ELSE cache[u]]

\* a call that sends the request whatever the hint type and the client are
UpdateStartAlwaysRequesting(editor) ==
  /\ UNCHANGED tokVars
  /\ UNCHANGED <<hintType, alignColumn, minPadding, client, documentDecorations>>
  /\ started < MaxRequests
  /\ started' = started + 1
  /\ inflight' = inflight \cup
       { [ id |-> started + 1, editor |-> editor,
           alignColumn |-> alignColumn, minPadding |-> minPadding ] }
  /\ UNCHANGED <<editorDecorations, applied>>

\* updateInlayHintDecorations(editor) up to the await of sendRequest
UpdateStart(editor) ==
  /\ UNCHANGED tokVars
  /\ UNCHANGED <<hintType, alignColumn, minPadding, client, documentDecorations>>
  /\ IF ~client \/ hintType = "none"
     THEN /\ editorDecorations' = [editorDecorations EXCEPT ![editor] = <<>>]
          /\ applied' = [applied EXCEPT
                          ![editor] = Finished(editor, "disabled", <<>>, applied[editor].id)]
          /\ UNCHANGED <<inflight, started>>
     ELSE /\ started < MaxRequests
          /\ started' = started + 1
          /\ inflight' = inflight \cup
               { [ id |-> started + 1, editor |-> editor,
                   alignColumn |-> alignColumn, minPadding |-> minPadding ] }
          /\ UNCHANGED <<editorDecorations, applied>>

\* a rejected request that leaves the editor as it was
UpdateFailedKeepingShown(req) ==
  /\ UNCHANGED tokVars
  /\ UNCHANGED <<hintType, alignColumn, minPadding, client, documentDecorations, started>>
  /\ inflight' = inflight \ {req}
  /\ UNCHANGED editorDecorations
  /\ applied' = [applied EXCEPT ![req.editor] = Finished(req.editor, "rejected", <<>>, req.id)]

\* the request is rejected: the catch clears the editor
UpdateFailed(req) ==
  /\ UNCHANGED tokVars
  /\ UNCHANGED <<hintType, alignColumn, minPadding, client, documentDecorations, started>>
  /\ inflight' = inflight \ {req}
  /\ editorDecorations' = [editorDecorations EXCEPT ![req.editor] = <<>>]
  /\ applied' = [applied EXCEPT ![req.editor] = Finished(req.editor, "rejected", <<>>, req.id)]

\* a null response that leaves the editor as it was
UpdateNullKeepingShown(req) ==
  /\ UNCHANGED tokVars
  /\ UNCHANGED <<hintType, alignColumn, minPadding, client, started>>
  /\ inflight' = inflight \ {req}
  /\ UNCHANGED editorDecorations
  /\ documentDecorations' = cacheSet(documentDecorations, req.editor, <<>>)
  /\ applied' = [applied EXCEPT ![req.editor] = Finished(req.editor, "null", <<>>, req.id)]

\* the request resolves with null
UpdateNull(req) ==
  /\ UNCHANGED tokVars
  /\ UNCHANGED <<hintType, alignColumn, minPadding, client, started>>
  /\ inflight' = inflight \ {req}
  /\ editorDecorations' = [editorDecorations EXCEPT ![req.editor] = <<>>]
  /\ documentDecorations' = cacheSet(documentDecorations, req.editor, <<>>)
  /\ applied' = [applied EXCEPT ![req.editor] = Finished(req.editor, "null", <<>>, req.id)]

\* the request resolves with a list of hints: the rest of the function
updateWithHints(req, hints) ==
  /\ UNCHANGED tokVars
  /\ UNCHANGED <<hintType, alignColumn, minPadding, client, started>>
  /\ inflight' = inflight \ {req}
  /\ applied' = [applied EXCEPT ![req.editor] = Finished(req.editor, "hints", hints, req.id)]
  /\ IF Len(hints) = 0
     THEN /\ editorDecorations' = [editorDecorations EXCEPT ![req.editor] = <<>>]
          /\ documentDecorations' = cacheSet(documentDecorations, req.editor, <<>>)
     ELSE \E result \in { decorationsOf(DocumentLines[req.editor], hints,
                                         req.alignColumn, req.minPadding) } :
            IF result.threw
            THEN /\ editorDecorations' = [editorDecorations EXCEPT ![req.editor] = <<>>]
                 /\ UNCHANGED documentDecorations
            ELSE /\ editorDecorations' =
                      [editorDecorations EXCEPT ![req.editor] = result.decorations]
                 /\ documentDecorations' =
                      cacheSet(documentDecorations, req.editor, result.decorations)

UpdateWithHints(req) ==
  \E n \in 0..MaxHints :
    \E hints \in [1..n -> HintsUniverse] :
       updateWithHints(req, hints)

HintNext ==
  \/ \E editor \in Editors : UpdateStart(editor) /\ UNCHANGED extraVars
  \/ \E req \in inflight : UpdateFailed(req) /\ UNCHANGED extraVars
  \/ \E req \in inflight : UpdateNull(req) /\ UNCHANGED extraVars
  \/ \E req \in inflight : UpdateWithHints(req) /\ UNCHANGED extraVars

(***************************************************************************)
(* updateAllVisibleEditors: the editors are refreshed one after the other, *)
(* each call awaited before the next one starts.                           *)
(***************************************************************************)
\* the order of vscode.window.visibleTextEditors
EditorOrder == <<"a.masm", "b.masm">>

\* the visible MASM editors: those whose document has not been closed
VisibleEditors == SelectSeq(EditorOrder, LAMBDA e : e \notin closed)

\* updateAllVisibleEditors() is called: nothing is awaited yet
updateAllVisibleEditors ==
  /\ loopCount' = loopCount + 1
  /\ loops' = loops \cup
       { [id |-> loopCount + 1, remaining |-> VisibleEditors, awaits |-> 0] }

\* the call of updateInlayHintDecorations the loop awaits has returned
LoopReady(loop) == \A req \in inflight : req.id # loop.awaits

\* the loop calls updateInlayHintDecorations for its next editor and awaits it
LoopNext(loop) ==
  /\ LoopReady(loop)
  /\ loop.remaining # <<>>
  /\ UpdateStart(Head(loop.remaining))
  /\ loops' = (loops \ {loop}) \cup
       { [loop EXCEPT !.remaining = Tail(loop.remaining),
                      !.awaits = IF started' # started THEN started' ELSE 0] }
  /\ UNCHANGED <<loopCount, toggling, toggles, closed>>
  /\ UNCHANGED <<clientVars, debounceVars>>

\* the loop is over: updateAllVisibleEditors returns
LoopEnd(loop) ==
  /\ LoopReady(loop)
  /\ loop.remaining = <<>>
  /\ loops' = loops \ {loop}
  /\ UNCHANGED <<loopCount, toggling, toggles, closed>>
  /\ UNCHANGED <<tokVars, hintVars, clientVars, debounceVars>>

\* responses of the server in the command and event models: no hint, or one
\* hint on the first line
FewResponses ==
  { <<>>, << [line |-> 0, label |-> StringLabel(<<"x">>)] >> }

UpdateWithFewHints(req) ==
  \E hints \in FewResponses : updateWithHints(req, hints)

(***************************************************************************)
(* The language client: masm.restartServer, stopClient, startClient,       *)
(* resolveStdlibPath.                                                      *)
(***************************************************************************)
\* the settings of the hint refresh apart from getClient()
hintRest == <<hintType, alignColumn, minPadding, editorDecorations,
              documentDecorations, inflight, started, applied>>

\* how startClient gets to a server binary, or fails to
StartPaths == {"no-cargo", "declined", "install-failed", "found"}

\* what the user types into the input box
PromptAnswers == {"path", "blank"}

ClientIdle ==
  /\ clientRef = 0
  /\ clientState = [k \in 1..MaxStarts |-> "unused"]
  /\ restarts = {}
  /\ invocations = 0
  /\ prompts = 0
  /\ cached = FALSE
  /\ resolvable = TRUE

ClientInit ==
  /\ clientRef = 0
  /\ clientState = [k \in 1..MaxStarts |-> "unused"]
  /\ restarts = {}
  /\ invocations = 0
  /\ prompts = 0
  /\ cached = FALSE
  /\ resolvable \in BOOLEAN

\* the invocation moves on to the next await
MovesTo(h, pc) == restarts' = (restarts \ {h}) \cup {[h EXCEPT !.pc = pc]}

\* stopClient() up to "await current.stop()": the reference is dropped and
\* stop() is called on the client it referred to
stopClient ==
  IF clientRef = 0
  THEN UNCHANGED <<clientRef, client, clientState>>
  ELSE /\ clientRef' = 0
       /\ client' = FALSE
       /\ clientState' = [clientState EXCEPT ![clientRef] = "stopped"]

\* the command masm.restartServer is invoked: "await stopClient()"
RestartServer ==
  /\ invocations < MaxStarts
  /\ invocations' = invocations + 1
  /\ restarts' = restarts \cup {[n |-> invocations + 1, pc |-> "stopping"]}
  /\ stopClient
  /\ UNCHANGED <<prompts, cached, resolvable>>
  /\ UNCHANGED <<tokVars, hintRest, sessionVars, debounceVars>>

\* "new LanguageClient(...)" and "newClient.start()" up to its await
launch(h) ==
  /\ clientState' = [clientState EXCEPT ![h.n] = "starting"]
  /\ MovesTo(h, "starting")

\* resolveStdlibPath up to showInputBox: TRUE when a path is known without
\* asking the user
pathKnown == resolvable \/ cached

\* startClient returns before it creates a client: no binary and no cargo,
\* the user declines the installation, or the installation fails
StartAbandoned(h) ==
  /\ h.pc = "stopping"
  /\ \E path \in StartPaths \ {"found"} : MovesTo(h, "started")
  /\ UNCHANGED <<clientRef, clientState, invocations, prompts, cached, resolvable>>
  /\ UNCHANGED <<tokVars, hintVars, sessionVars, debounceVars>>

\* startClient with a binary at hand, up to the input box of
\* resolveStdlibPath or up to the await of newClient.start()
StartClient(h) ==
  /\ h.pc = "stopping"
  /\ IF pathKnown
     THEN /\ launch(h)
          /\ UNCHANGED prompts
     ELSE /\ prompts' = prompts + 1
          /\ MovesTo(h, "prompting")
          /\ UNCHANGED clientState
  /\ UNCHANGED <<clientRef, invocations, cached, resolvable>>
  /\ UNCHANGED <<tokVars, hintVars, sessionVars, debounceVars>>

\* the user answers the input box: a path is stored in globalState, a blank
\* answer is not; then the client is created and started
AnswerPrompt(h) ==
  /\ h.pc = "prompting"
  /\ \E answer \in PromptAnswers : cached' = (cached \/ answer = "path")
  /\ launch(h)
  /\ UNCHANGED <<clientRef, invocations, prompts, resolvable>>
  /\ UNCHANGED <<tokVars, hintVars, sessionVars, debounceVars>>

\* newClient.start() resolves: "client = newClient"
StartResolves(h) ==
  /\ h.pc = "starting"
  /\ clientState' = [clientState EXCEPT ![h.n] = "running"]
  /\ clientRef' = h.n
  /\ client' = TRUE
  /\ MovesTo(h, "started")
  /\ UNCHANGED <<invocations, prompts, cached, resolvable>>
  /\ UNCHANGED <<tokVars, hintRest, sessionVars, debounceVars>>

\* variant: the reference is assigned before start() is awaited, so that a
\* rejected start leaves it pointing at the disposed client
StartRejectsKeepingReference(h) ==
  /\ h.pc = "starting"
  /\ clientState' = [clientState EXCEPT ![h.n] = "failed"]
  /\ clientRef' = h.n
  /\ client' = TRUE
  /\ MovesTo(h, "started")
  /\ UNCHANGED <<invocations, prompts, cached, resolvable>>
  /\ UNCHANGED <<tokVars, hintRest, sessionVars, debounceVars>>

\* newClient.start() rejects: the catch disposes of the new client
StartRejects(h) ==
  /\ h.pc = "starting"
  /\ clientState' = [clientState EXCEPT ![h.n] = "failed"]
  /\ MovesTo(h, "started")
  /\ UNCHANGED <<clientRef, invocations, prompts, cached, resolvable>>
  /\ UNCHANGED <<tokVars, hintVars, sessionVars, debounceVars>>

\* startClient has returned: sendConfiguration, then updateAllVisibleEditors
RefreshAfterRestart(h) ==
  /\ h.pc = "started"
  /\ restarts' = restarts \ {h}
  /\ updateAllVisibleEditors
  /\ UNCHANGED <<clientRef, clientState, invocations, prompts, cached, resolvable>>
  /\ UNCHANGED <<toggling, toggles, closed>>
  /\ UNCHANGED <<tokVars, hintVars, debounceVars>>

ClientNext ==
  \/ RestartServer
  \/ \E h \in restarts : StartAbandoned(h)
  \/ \E h \in restarts : StartClient(h)
  \/ \E h \in restarts : AnswerPrompt(h)
  \/ \E h \in restarts : StartResolves(h)
  \/ \E h \in restarts : StartRejects(h)
  \/ \E h \in restarts : RefreshAfterRestart(h)
  \/ \E loop \in loops : LoopNext(loop)
  \/ \E loop \in loops : LoopEnd(loop)
  \/ \E req \in inflight : UpdateFailed(req) /\ UNCHANGED extraVars
  \/ \E req \in inflight : UpdateNull(req) /\ UNCHANGED extraVars
  \/ \E req \in inflight : UpdateWithFewHints(req) /\ UNCHANGED extraVars

(***************************************************************************)
(* Commands and document events: idle state.                               *)
(***************************************************************************)
SessionIdle ==
  /\ loops = {}
  /\ loopCount = 0
  /\ toggling = {}
  /\ toggles = <<>>
  /\ closed = {}

DebounceIdle ==
  /\ updateTimeout = "none"
  /\ dirty = [e \in Editors |-> FALSE]
  /\ edits = 0

\* no command, no restart and no document event
ExtraIdle == ClientIdle /\ SessionIdle /\ DebounceIdle

\* the hint refresh with a hint type set and the default layout
HintEnabled ==
  /\ hintType \in HintTypes \ {"none"}
  /\ alignColumn = 40
  /\ minPadding = 2
  /\ client = FALSE
  /\ editorDecorations = [e \in Editors |-> <<>>]
  /\ documentDecorations = <<>>
  /\ inflight = {}
  /\ started = 0
  /\ applied = [e \in Editors |-> NothingApplied]

(***************************************************************************)
(* The toggle commands, the editor events and the close event.             *)
(***************************************************************************)
\* a client that was started once and runs
ClientRunning ==
  /\ clientRef = 1
  /\ clientState = [k \in 1..MaxStarts |-> IF k = 1 THEN "running" ELSE "unused"]
  /\ restarts = {}
  /\ invocations = 1
  /\ prompts = 0
  /\ cached = FALSE
  /\ resolvable = TRUE

\* the hint refresh with a running client, any hint type, the default layout
HintSession ==
  /\ hintType \in HintTypes
  /\ alignColumn = 40
  /\ minPadding = 2
  /\ client = TRUE
  /\ editorDecorations = [e \in Editors |-> <<>>]
  /\ documentDecorations = <<>>
  /\ inflight = {}
  /\ started = 0
  /\ applied = [e \in Editors |-> NothingApplied]

\* the types a toggle command exists for
ToggleTargets == {"decompilation", "description"}

\* variant: a toggle that switches the hints off whenever any type is on
nextTypeOnOff(currentType, targetType) ==
  IF currentType = "none" THEN targetType ELSE "none"

\* nextType of toggleInlayHintType
nextType(currentType, targetType) ==
  IF currentType = targetType THEN "none" ELSE targetType

\* toggleInlayHintType(targetType) up to the end of "await config.update":
\* the type is read and the next type written
ToggleType(targetType) ==
  /\ Len(toggles) < MaxToggles
  /\ hintType' = nextType(hintType, targetType)
  /\ toggles' = Append(toggles, [target |-> targetType, before |-> hintType,
                                 after |-> hintType', done |-> FALSE])
  /\ toggling' = toggling \cup {Len(toggles) + 1}
  /\ UNCHANGED <<loops, loopCount, closed>>
  /\ UNCHANGED <<alignColumn, minPadding, client, editorDecorations,
                 documentDecorations, inflight, started, applied>>
  /\ UNCHANGED <<tokVars, clientVars, debounceVars>>

\* clearAllDecorations(): every visible editor is cleared, the cache emptied
clearAllDecorations ==
  /\ editorDecorations' =
       [e \in Editors |-> IF e \in closed THEN editorDecorations[e] ELSE <<>>]
  /\ documentDecorations' = <<>>

\* toggleInlayHintType after "await sendConfiguration()": the editors are
\* cleared, or updateAllVisibleEditors is called
ToggleApply(i) ==
  /\ toggling' = toggling \ {i}
  /\ toggles' = [toggles EXCEPT ![i].done = TRUE]
  /\ IF toggles[i].after = "none"
     THEN /\ clearAllDecorations
          /\ UNCHANGED <<loops, loopCount>>
     ELSE /\ updateAllVisibleEditors
          /\ UNCHANGED <<editorDecorations, documentDecorations>>
  /\ UNCHANGED closed
  /\ UNCHANGED <<hintType, alignColumn, minPadding, client, inflight, started,
                 applied>>
  /\ UNCHANGED <<tokVars, clientVars, debounceVars>>

\* onDidChangeActiveTextEditor / onDidChangeVisibleTextEditors for a visible
\* MASM editor: updateInlayHintDecorations(editor)
RefreshEditor(editor) ==
  /\ editor \notin closed
  /\ UpdateStart(editor)
  /\ UNCHANGED extraVars

\* documentDecorations.delete(uri)
cacheDelete(cache, uri) == [u \in (DOMAIN cache) \ {uri} |-> cache[u]]

\* onDidCloseTextDocument: the entry of the document is removed
CloseDocument(editor) ==
  /\ editor \notin closed
  /\ closed' = closed \cup {editor}
  /\ documentDecorations' = cacheDelete(documentDecorations, editor)
  /\ UNCHANGED <<loops, loopCount, toggling, toggles>>
  /\ UNCHANGED <<hintType, alignColumn, minPadding, client, editorDecorations,
                 inflight, started, applied>>
  /\ UNCHANGED <<tokVars, clientVars, debounceVars>>

SessionNext ==
  \/ \E targetType \in ToggleTargets : ToggleType(targetType)
  \/ \E i \in toggling : ToggleApply(i)
  \/ \E editor \in Editors : RefreshEditor(editor)
  \/ \E editor \in Editors : CloseDocument(editor)
  \/ \E loop \in loops : LoopNext(loop)
  \/ \E loop \in loops : LoopEnd(loop)
  \/ \E req \in inflight : UpdateFailed(req) /\ UNCHANGED extraVars
  \/ \E req \in inflight : UpdateNull(req) /\ UNCHANGED extraVars
  \/ \E req \in inflight : UpdateWithFewHints(req) /\ UNCHANGED extraVars

(***************************************************************************)
(* The debounced refresh after a text change: one timer for all editors.   *)
(***************************************************************************)
\* onDidChangeTextDocument for a visible MASM document: debouncedUpdate
\* clears the pending timer, whatever editor it was for, and sets a new one
ChangeTextDocument(editor) ==
  /\ edits < MaxRequests
  /\ edits' = edits + 1
  /\ updateTimeout' = editor
  /\ dirty' = [dirty EXCEPT ![editor] = TRUE]
  /\ UNCHANGED <<tokVars, hintVars, clientVars, sessionVars>>

\* the timer fires after 100 ms: updateInlayHintDecorations(editor)
TimerFires ==
  /\ updateTimeout # "none"
  /\ UpdateStart(updateTimeout)
  /\ dirty' = [dirty EXCEPT ![updateTimeout] = FALSE]
  /\ updateTimeout' = "none"
  /\ UNCHANGED edits
  /\ UNCHANGED <<clientVars, sessionVars>>

DebounceNext ==
  \/ \E editor \in Editors : ChangeTextDocument(editor)
  \/ TimerFires
  \/ \E req \in inflight : UpdateFailed(req) /\ UNCHANGED extraVars
  \/ \E req \in inflight : UpdateNull(req) /\ UNCHANGED extraVars
  \/ \E req \in inflight : UpdateWithFewHints(req) /\ UNCHANGED extraVars

(***************************************************************************)
(* Specifications.                                                          *)
(***************************************************************************)
\* the semantic tokens provider alone
InitTokens == TokInit /\ HintIdle /\ ExtraIdle

SpecTokens == InitTokens /\ [][TokNext]_vars

\* the inlay hint decorations alone
InitHints == TokInit /\ HintInit /\ ExtraIdle

SpecHints == InitHints /\ [][HintNext]_vars

\* the language client and the restart command
InitClient == TokInit /\ HintEnabled /\ ClientInit /\ SessionIdle /\ DebounceIdle

SpecClient == InitClient /\ [][ClientNext]_vars

\* the toggle commands and the document events
InitSession == TokInit /\ HintSession /\ ClientRunning /\ SessionIdle /\ DebounceIdle

SpecSession == InitSession /\ [][SessionNext]_vars

\* text changes and the debounce timer; a timer that is set fires
InitDebounce == TokInit /\ HintSession /\ ClientRunning /\ SessionIdle /\ DebounceIdle

SpecDebounce ==
  InitDebounce /\ [][DebounceNext]_vars /\ WF_vars(TimerFires)

(***************************************************************************)
(* decodeSemanticTokens of the test suite: replays the deltas of the       *)
(* integer array, five integers per token.                                 *)
(***************************************************************************)
TOKEN_TYPES == tokenTypes

RECURSIVE decodeFrom(_, _, _)
decodeFrom(data, currentLine, currentChar) ==
  IF Len(data) < 5 THEN <<>>
  ELSE LET deltaLine == data[1]
           line == currentLine + deltaLine
           char == IF deltaLine = 0 THEN currentChar + data[2] ELSE data[2]
           tokenTypeIndex == data[4]
       IN  << [ line |-> line, startChar |-> char, length |-> data[3],
                tokenType |-> IF tokenTypeIndex + 1 \in DOMAIN TOKEN_TYPES
                              THEN TOKEN_TYPES[tokenTypeIndex + 1]
                              ELSE "unknown" ] >>
           \o decodeFrom(SubSeq(data, 6, Len(data)), line, char)

decodeSemanticTokens(data) == decodeFrom(data, 0, 0)

(***************************************************************************)
(* Vocabulary of the properties.                                           *)
(***************************************************************************)
\* the call returned a token list built from captures
Resolved == outcome = "returned" /\ parseResult = "tree" /\ ~queryThrows

Emitted == decodeSemanticTokens(tokens)

Classified(c) == getTokenMapping(c.name).defined

SingleLine(c) == c.startRow = c.endRow

\* half-open column ranges [s1, e1) and [s2, e2) share a column
RangesMeet(s1, e1, s2, e2) == s1 < e2 /\ s2 < e1

\* the emitted tokens of one line, in output order
EmittedOn(row) == SelectSeq(Emitted, LAMBDA t : t.line = row)

\* capture c has a candidate range on this row
Touches(c, row) ==
  /\ Classified(c)
  /\ IF SingleLine(c) THEN c.startRow = row
     ELSE c.startRow < c.endRow /\ c.startRow <= row /\ row <= c.endRow

\* the sequence without its k-th element
Without(seq, k) == SubSeq(seq, 1, k - 1) \o SubSeq(seq, k + 1, Len(seq))

\* the token list the resolver returns for a capture list
TokensFor(lines, caps) == builderBuild(resolveCaptures(lines, caps).data)

(***************************************************************************)
(* C1: the tokens emitted on any one line have pairwise disjoint column    *)
(* ranges [startChar, startChar + length), whether they come from          *)
(* single-line captures or from pieces of multi-line captures.             *)
(***************************************************************************)
C1_NoOverlap ==
  Resolved =>
    \A i, j \in 1..Len(Emitted) :
       (i < j /\ Emitted[i].line = Emitted[j].line) =>
          ~RangesMeet(Emitted[i].startChar, Emitted[i].startChar + Emitted[i].length,
                      Emitted[j].startChar, Emitted[j].startChar + Emitted[j].length)

\* three captures, one of them multi-line, leave two tokens on one line
C1_Witness ==
  /\ Resolved
  /\ \E i, j \in 1..Len(Emitted) : i < j /\ Emitted[i].line = Emitted[j].line
  /\ \E k \in 1..Len(captures) : Classified(captures[k]) /\ captures[k].startRow < captures[k].endRow
  /\ Len(Emitted) >= 3
  /\ Len(captures) = 3

(***************************************************************************)
(* C2: the returned token list is in ascending (line, startChar) order,    *)
(* also when a piece of a multi-line capture on a later line was pushed     *)
(* before a token of an earlier line.                                       *)
(***************************************************************************)
C2_Ascending ==
  Resolved =>
    \A i \in 1..(Len(Emitted) - 1) :
       \/ Emitted[i].line < Emitted[i + 1].line
       \/ /\ Emitted[i].line = Emitted[i + 1].line
          /\ Emitted[i].startChar <= Emitted[i + 1].startChar

\* push order and final order diverge
C2_Witness ==
  /\ Resolved
  /\ \E i \in 1..(Len(builderData) - 1) : builderData[i].line > builderData[i + 1].line
  /\ Len(Emitted) = Len(builderData)

(***************************************************************************)
(* C3: two classified single-line captures with the same start and         *)
(* different positive lengths: the longer one never yields a token, and     *)
(* when no other capture has a candidate on that line the line carries      *)
(* exactly one token, the shorter capture's span with the shorter           *)
(* capture's classification.                                                *)
(***************************************************************************)
SameStartPair(a, b) ==
  /\ Classified(a) /\ Classified(b)
  /\ SingleLine(a) /\ SingleLine(b)
  /\ a.startRow = b.startRow /\ a.startCol = b.startCol
  /\ 0 < a.endCol - a.startCol
  /\ a.endCol - a.startCol < b.endCol - b.startCol

\* C3: of two classified single-line captures with the same start, only the
\* shorter one yields a token
C3_ShorterWins ==
  Resolved =>
    \A i, j \in 1..Len(captures) :
       SameStartPair(captures[i], captures[j]) =>
         LET a == captures[i]
             b == captures[j]
         IN  /\ \A t \in 1..Len(Emitted) :
                   ~( /\ Emitted[t].line = b.startRow
                      /\ Emitted[t].startChar = b.startCol
                      /\ Emitted[t].length = b.endCol - b.startCol )
             /\ (\A k \in 1..Len(captures) :
                    k \in {i, j} \/ ~Touches(captures[k], a.startRow))
                => EmittedOn(a.startRow) =
                     << [ line |-> a.startRow, startChar |-> a.startCol,
                          length |-> a.endCol - a.startCol,
                          tokenType |-> getTokenMapping(a.name).type ] >>

\* the longer capture is supplied first, with another classification
C3_Witness ==
  /\ Resolved
  /\ Len(captures) = 2
  /\ SameStartPair(captures[2], captures[1])
  /\ getTokenMapping(captures[1].name).type # getTokenMapping(captures[2].name).type
  /\ Len(Emitted) = 1

(***************************************************************************)
(* C4: two classified captures with identical spans and different          *)
(* classifications: when no other capture has a candidate on the line, the  *)
(* line carries exactly one token, classified as the capture supplied       *)
(* earlier.                                                                 *)
(***************************************************************************)
SameSpanPair(a, b) ==
  /\ Classified(a) /\ Classified(b)
  /\ SingleLine(a)
  /\ a.startRow = b.startRow /\ a.startCol = b.startCol
  /\ a.endRow = b.endRow /\ a.endCol = b.endCol
  /\ 0 < a.endCol - a.startCol
  /\ getTokenMapping(a.name) # getTokenMapping(b.name)

\* C4: of two classified captures with the same span, the one supplied
\* earlier gives the token its classification
C4_EarlierSuppliedWins ==
  Resolved =>
    \A i, j \in 1..Len(captures) :
       (i < j /\ SameSpanPair(captures[i], captures[j])) =>
         LET a == captures[i]
         IN  (\A k \in 1..Len(captures) :
                 k \in {i, j} \/ ~Touches(captures[k], a.startRow))
             => EmittedOn(a.startRow) =
                  << [ line |-> a.startRow, startChar |-> a.startCol,
                       length |-> a.endCol - a.startCol,
                       tokenType |-> getTokenMapping(a.name).type ] >>

\* 'function' (by prefix) supplied before 'keyword' on the same span
C4_Witness ==
  /\ Resolved
  /\ Len(captures) = 2
  /\ SameSpanPair(captures[1], captures[2])
  /\ getTokenMapping(captures[1].name).type = "function"
  /\ Len(Emitted) = 1
  /\ Emitted[1].tokenType = "function"

(***************************************************************************)
(* C5 (as stated): resolving any permutation of the supplied captures      *)
(* yields the same token list.                                             *)
(***************************************************************************)
Permuted(seq, perm) == [i \in 1..Len(seq) |-> seq[perm[i]]]

C5_AnyOrderSameTokens ==
  Resolved =>
    \A perm \in Permutations(1..Len(captures)) :
       TokensFor(text, Permuted(captures, perm)) = tokens

\* classified captures that tie in the sort (same start, same length) have
\* the same span and the same classification
TiesAreTwins ==
  \A i, j \in 1..Len(captures) :
     ( /\ Classified(captures[i]) /\ Classified(captures[j])
       /\ captures[i].startRow = captures[j].startRow
       /\ captures[i].startCol = captures[j].startCol
       /\ captures[i].endIndex - captures[i].startIndex
            = captures[j].endIndex - captures[j].startIndex )
     => /\ captures[i].endRow = captures[j].endRow
        /\ captures[i].endCol = captures[j].endCol
        /\ getTokenMapping(captures[i].name) = getTokenMapping(captures[j].name)

(***************************************************************************)
(* C5 (amended): resolving any permutation of the supplied captures yields *)
(* the same token list, provided that classified captures with the same    *)
(* start and the same length have the same classification; captures that   *)
(* tie and differ in classification are resolved in supplied order.        *)
(***************************************************************************)
C5_OrderIndependentWithoutTies ==
  (Resolved /\ TiesAreTwins) =>
    \A perm \in Permutations(1..Len(captures)) :
       TokensFor(text, Permuted(captures, perm)) = tokens

\* two overlapping classified captures, the later-sorted one supplied first
C5_Witness ==
  /\ Resolved /\ TiesAreTwins
  /\ Len(captures) = 2
  /\ Classified(captures[1]) /\ Classified(captures[2])
  /\ compareCaptures(captures[1], captures[2]) > 0
  /\ captures[1].startRow = captures[2].startRow
  /\ captures[1].startCol = captures[2].startCol
  /\ Len(Emitted) = 1

(***************************************************************************)
(* C6: getTokenMapping(name) is the classification of the longest          *)
(* dot-delimited prefix of name (name included) that is a key of the       *)
(* table, nothing when no prefix is a key; every pushed token and every    *)
(* claimed range is a candidate range of a classified capture, so a        *)
(* capture without classification emits nothing and claims nothing.        *)
(***************************************************************************)
KeyPrefixes(name) ==
  { k \in 1..Len(name) : SubSeq(name, 1, k) \in DOMAIN captureToSemanticToken }

LongestKeyPrefix(name) ==
  IF KeyPrefixes(name) = {} THEN NoMapping
  ELSE captureToSemanticToken[
         SubSeq(name, 1, CHOOSE k \in KeyPrefixes(name) : \A h \in KeyPrefixes(name) : h <= k)]

\* the candidate range of capture c on a row it touches
CandidateStart(c, row) == IF row = c.startRow THEN c.startCol ELSE 0

CandidateEnd(c, row) == IF row = c.endRow THEN c.endCol ELSE LineLength(text, row)

IsCandidateOf(c, row, startCol, endCol) ==
  /\ Touches(c, row)
  /\ startCol = CandidateStart(c, row)
  /\ endCol = CandidateEnd(c, row)

C6_WitnessNamed ==
  /\ Resolved
  /\ Len(captures) = 1
  /\ Len(captures[1].name) = 3
  /\ KeyPrefixes(captures[1].name) = {1, 2}
  /\ Len(Emitted) = 1
  /\ Emitted[1].tokenType = "method"

(***************************************************************************)
(* C7: a classified capture from (r1,c1) to (r2,c2) with r1 < r2 has one   *)
(* candidate per line: [c1, length of r1) on r1, [0, length of r) on an    *)
(* interior line, [0, c2) on r2.  Each non-empty candidate is pushed and   *)
(* claimed iff it meets no range claimed before on its own line, whatever  *)
(* happens on the capture's other lines.                                   *)
(***************************************************************************)
\* the walk over the first k captures of the sorted list
WalkUpTo(k) == resolveCaptures(text, SubSeq(sortCaptures(captures), 1, k))

Candidates(c) ==
  [ i \in 1..(c.endRow - c.startRow + 1) |->
      [ row |-> c.startRow + i - 1,
        startCol |-> CandidateStart(c, c.startRow + i - 1),
        endCol |-> CandidateEnd(c, c.startRow + i - 1) ] ]

Free(claimed, p) ==
  /\ p.endCol - p.startCol > 0
  /\ \A q \in 1..Len(claimed) :
        claimed[q].row = p.row =>
          ~RangesMeet(p.startCol, p.endCol, claimed[q].startCol, claimed[q].endCol)

\* the candidates of c that are free given the ranges claimed before c
KeptCandidates(c, claimed) == SelectSeq(Candidates(c), LAMBDA p : Free(claimed, p))

TokenOf(c, p) ==
  [ line |-> p.row, char |-> p.startCol, length |-> p.endCol - p.startCol,
    type |-> IndexOf(tokenTypes, getTokenMapping(c.name).type),
    mods |-> encodeModifiers(getTokenMapping(c.name).modifiers) ]

MultiLineAt(k) ==
  LET c == sortCaptures(captures)[k]
  IN  Classified(c) /\ c.startRow < c.endRow

\* C7: a multi-line capture pushes and claims exactly its non-empty
\* candidates that are free on their own line
C7_MultiLinePerLine ==
  Resolved =>
    /\ WalkUpTo(Len(captures)).data = builderData
    /\ \A k \in 1..Len(captures) :
          MultiLineAt(k) =>
            LET c == sortCaptures(captures)[k]
                before == WalkUpTo(k - 1)
                kept == KeptCandidates(c, before.processed)
            IN  /\ WalkUpTo(k).processed = before.processed \o kept
                /\ WalkUpTo(k).data =
                     before.data \o [i \in 1..Len(kept) |-> TokenOf(c, kept[i])]
                /\ \A i \in 1..Len(kept) :
                      \E t \in 1..Len(Emitted) :
                         /\ Emitted[t].line = kept[i].row
                         /\ Emitted[t].startChar = kept[i].startCol
                         /\ Emitted[t].length = kept[i].endCol - kept[i].startCol

\* a capture over lines 0..2 is pushed on lines 0 and 2 and collides on line 1
C7_Witness ==
  /\ Resolved
  /\ \E k \in 1..Len(captures) :
        /\ MultiLineAt(k)
        /\ LET c == sortCaptures(captures)[k]
               kept == KeptCandidates(c, WalkUpTo(k - 1).processed)
           IN  /\ c.startRow = 0 /\ c.endRow = 2
               /\ Len(kept) = 2
               /\ kept[1].row = 0 /\ kept[2].row = 2
               /\ Candidates(c)[2].endCol > Candidates(c)[2].startCol

(***************************************************************************)
(* C8: a classified capture whose end is not after its start (zero width,  *)
(* end column before start column, end row before start row) is skipped:   *)
(* the call returns, and what it pushed, claimed and returned is what it    *)
(* pushes, claims and returns without that capture.                         *)
(***************************************************************************)
EndNotAfterStart(c) ==
  \/ c.endRow < c.startRow
  \/ c.endRow = c.startRow /\ c.endCol <= c.startCol

\* C8: a classified capture whose end is not after its start changes
\* nothing and raises nothing
C8_InvertedSkipped ==
  (outcome # "none" /\ parseResult = "tree" /\ ~queryThrows) =>
    /\ outcome = "returned"
    /\ \A k \in 1..Len(captures) :
          (Classified(captures[k]) /\ EndNotAfterStart(captures[k])) =>
            LET rest == resolveCaptures(text, Without(captures, k))
            IN  /\ builderData = rest.data
                /\ processedPositions = rest.processed
                /\ tokens = builderBuild(rest.data)
                /\ \A t \in 1..Len(builderData) : builderData[t].length > 0

\* a capture that ends on an earlier row sorts before a capture that is
\* emitted on the rows between its end and its start
C8_Witness ==
  /\ Resolved
  /\ Len(captures) = 2
  /\ Classified(captures[1]) /\ captures[1].endRow < captures[1].startRow
  /\ Classified(captures[2]) /\ captures[2].startRow < captures[2].endRow
  /\ Len(Emitted) = 2

\* a zero-width capture and a capture with the end column before the start
C8_WitnessSameRow ==
  /\ Resolved
  /\ Len(captures) = 2
  /\ Classified(captures[1]) /\ Classified(captures[2])
  /\ SingleLine(captures[1]) /\ captures[1].endCol = captures[1].startCol
  /\ SingleLine(captures[2]) /\ captures[2].endCol < captures[2].startCol
  /\ Len(Emitted) = 0

(***************************************************************************)
(* C10: when parser.parse throws or yields no tree, or query.captures      *)
(* throws, the call returns the empty integer array and raises no error.   *)
(***************************************************************************)
C10_FailedParseGivesEmpty ==
  (outcome # "none" /\ (parseResult \in {"throws", "null"} \/ queryThrows)) =>
    /\ outcome = "returned"
    /\ Len(tokens) = 0

C10_Witness ==
  /\ outcome = "returned"
  /\ parseResult = "throws"
  /\ text \in Documents

(***************************************************************************)
(* C9: a hint with a malformed position (line negative or past the last    *)
(* line) is skipped: after the refresh every line of the document that has *)
(* a usable hint in the same response carries a decoration.                *)
(***************************************************************************)
UsableAt(editor, hint) ==
  /\ labelTextOf(hint.label).usable
  /\ ~lineAtThrows(DocumentLines[editor], hint.line)

C9_MalformedHintSkipped ==
  \A editor \in Editors :
     applied[editor].kind = "hints" =>
       \A i \in 1..Len(applied[editor].hints) :
          UsableAt(editor, applied[editor].hints[i]) =>
            \E d \in 1..Len(editorDecorations[editor]) :
               editorDecorations[editor][d].line = applied[editor].hints[i].line

(***************************************************************************)
(* C11: a call of provideDocumentSemanticTokens never raises into its      *)
(* caller: whatever state the provider is in, also after initialize()      *)
(* failed, a call that has ended has returned a token list.                *)
(***************************************************************************)
C11_NeverThrows ==
  outcome # "none" => outcome = "returned"

(***************************************************************************)
(* C12: replaying the deltas of the returned integer array, five integers  *)
(* per token, gives back the line, start column, length and type of every  *)
(* pushed token, in ascending order of position.                           *)
(***************************************************************************)
\* what decodeSemanticTokens is expected to read back for one pushed token
DecodedOf(t) ==
  [ line |-> t.line, startChar |-> t.char, length |-> t.length,
    tokenType |-> tokenTypes[t.type + 1] ]

\* C12: decoding the returned array reconstructs the resolved token list
C12_RoundTrip ==
  Resolved =>
    /\ Len(tokens) = 5 * Len(builderData)
    /\ Emitted = [i \in 1..Len(builderData) |-> DecodedOf(sortTokens(builderData)[i])]

\* both branches of the delta: two tokens on one line with a start column
\* above 0, then a token on a later line
C12_Witness ==
  /\ Resolved
  /\ Len(Emitted) >= 3
  /\ \E i \in 1..(Len(Emitted) - 2) :
        /\ Emitted[i].line = Emitted[i + 1].line
        /\ Emitted[i].startChar > 0
        /\ Emitted[i + 1].line < Emitted[i + 2].line
        /\ Emitted[i + 2].startChar = 0

(***************************************************************************)
(* C13: for every entry of the classification table the type field of the  *)
(* emitted token is the position of the entry's type in tokenTypes, within  *)
(* 0..11, and the modifier field has bit i set exactly when the i-th name   *)
(* of tokenModifiers is one of the entry's modifiers: 'constant' gives      *)
(* type 'variable' with value 6, 'comment.doc' type 'comment' with value 1. *)
(***************************************************************************)
\* the type and modifier fields of the i-th token of the returned array
TypeField(i) == tokens[5 * (i - 1) + 4]

ModifierField(i) == tokens[5 * (i - 1) + 5]

BitSet(n, i) == (n \div Pow2(i)) % 2 = 1

\* the fields are the encoding of this table entry
EncodesEntry(i, entry) ==
  /\ TypeField(i) \in 0..11
  /\ tokenTypes[TypeField(i) + 1] = entry.type
  /\ ModifierField(i) \in 0..(Pow2(Len(tokenModifiers)) - 1)
  /\ \A b \in 0..(Len(tokenModifiers) - 1) :
        BitSet(ModifierField(i), b) <=>
          \E m \in 1..Len(entry.modifiers) : entry.modifiers[m] = tokenModifiers[b + 1]
  /\ (entry.modifiers = <<>>) => ModifierField(i) = 0

\* the call was given one capture with a span of positive width, named
\* exactly by a key of the table
TableCall ==
  /\ Resolved
  /\ Len(captures) = 1
  /\ captures[1].name \in DOMAIN captureToSemanticToken
  /\ SingleLine(captures[1])
  /\ captures[1].startCol < captures[1].endCol

\* C13: type index and modifier bitmask of every token are those of the
\* table entry that classifies its capture
C13_TypeAndModifierEncoding ==
  /\ TableCall =>
       /\ Len(tokens) = 5
       /\ EncodesEntry(1, captureToSemanticToken[captures[1].name])
       /\ (captures[1].name = <<"constant">>) =>
             (TypeField(1) = 3 /\ ModifierField(1) = 6)
       /\ (captures[1].name = <<"comment", "doc">>) =>
             (TypeField(1) = 0 /\ ModifierField(1) = 1)
  /\ Resolved =>
       \A i \in 1..Len(Emitted) :
          \E k \in 1..Len(captures) :
             /\ IsCandidateOf(captures[k], Emitted[i].line, Emitted[i].startChar,
                              Emitted[i].startChar + Emitted[i].length)
             /\ EncodesEntry(i, LongestKeyPrefix(captures[k].name))

\* the entry with two modifiers
C13_Witness ==
  /\ TableCall
  /\ captures[1].name = <<"constant">>
  /\ Len(tokens) = 5
  /\ ModifierField(1) = 6

\* the entry with the documentation modifier
C13_WitnessDoc ==
  /\ TableCall
  /\ captures[1].name = <<"comment", "doc">>
  /\ tokens = <<0, 0, 2, 0, 1>>

(***************************************************************************)
(* Vocabulary of the hint properties.                                      *)
(***************************************************************************)
\* a hint that carries label text: a string, or a list of at least one part
HasLabel(hint) ==
  \/ hint.label.kind = "string"
  \/ hint.label.kind = "array" /\ hint.label.parts # <<>>

\* the refresh of this editor that finished last was given a list of hints
\* and ran to its end: every hint with a label names a line of the document
Rendered(editor) ==
  /\ applied[editor].kind = "hints"
  /\ \A i \in 1..Len(applied[editor].hints) :
        HasLabel(applied[editor].hints[i]) =>
          ~lineAtThrows(DocumentLines[editor], applied[editor].hints[i].line)

\* the fragments of one line in the response, in supplied order
FragmentsOn(editor, line) ==
  SelectSeq(applied[editor].hints, LAMBDA h : h.line = line /\ HasLabel(h))

\* the parts of a label, one after the other without separator
RECURSIVE Concatenated(_)
Concatenated(parts) ==
  IF parts = <<>> THEN <<>> ELSE Head(parts) \o Concatenated(Tail(parts))

RawLabel(hint) == Concatenated(hint.label.parts)

\* the maximal runs of non-whitespace characters of a string, in order
RECURSIVE WordsFrom(_, _)
WordsFrom(str, word) ==
  IF str = <<>> THEN (IF word = <<>> THEN <<>> ELSE <<word>>)
  ELSE IF IsWhitespace(Head(str))
       THEN (IF word = <<>> THEN <<>> ELSE <<word>>) \o WordsFrom(Tail(str), <<>>)
       ELSE WordsFrom(Tail(str), Append(word, Head(str)))

Words(str) == WordsFrom(str, <<>>)

\* the strings one after the other, U+00A0 between neighbours
RECURSIVE SpacedByNbsp(_)
SpacedByNbsp(strs) ==
  IF strs = <<>> THEN <<>>
  ELSE IF Len(strs) = 1 THEN strs[1]
  ELSE strs[1] \o <<NBSP>> \o SpacedByNbsp(Tail(strs))

\* number of whitespace characters a string starts with
LeadingRunLength(str) ==
  CHOOSE k \in 0..Len(str) :
     /\ \A i \in 1..k : IsWhitespace(str[i])
     /\ k = Len(str) \/ ~IsWhitespace(str[k + 1])

\* the indentation of a raw label, every ordinary space as U+00A0
Indentation(str) ==
  [i \in 1..LeadingRunLength(str) |-> IF str[i] = " " THEN NBSP ELSE str[i]]

\* the text an aggregated line hint is to show for these fragments
AggregatedText(fragments) ==
  <<"#", NBSP>>
  \o Indentation(RawLabel(fragments[1]))
  \o SpacedByNbsp([i \in 1..Len(fragments) |-> SpacedByNbsp(Words(RawLabel(fragments[i])))])

(***************************************************************************)
(* C14: the text of a line's decoration is the marker "# ", the leading    *)
(* whitespace of the first supplied fragment of the line, then the labels  *)
(* of the line's fragments in supplied order, whitespace runs collapsed,   *)
(* trimmed and joined by one space; a label of several parts is their      *)
(* concatenation; every ordinary space ends up as U+00A0.                  *)
(***************************************************************************)
C14_CombinedText ==
  \A editor \in Editors :
     Rendered(editor) =>
       \A d \in 1..Len(editorDecorations[editor]) :
          LET dec == editorDecorations[editor][d]
          IN  /\ dec.contentText = AggregatedText(FragmentsOn(editor, dec.line))
              /\ \A i \in 1..Len(dec.contentText) : dec.contentText[i] # " "

\* a line with two fragments: a label of two parts that starts with U+00A0,
\* then a string label with indentation, inner whitespace and a trailing space
C14_Witness ==
  \E editor \in Editors :
     /\ Rendered(editor)
     /\ Len(editorDecorations[editor]) = 1
     /\ Len(FragmentsOn(editor, editorDecorations[editor][1].line)) = 2
     /\ FragmentsOn(editor, editorDecorations[editor][1].line)[1].label.kind = "array"
     /\ FragmentsOn(editor, editorDecorations[editor][1].line)[2].label.kind = "string"
     /\ editorDecorations[editor][1].contentText
          = <<"#", NBSP, NBSP, "a", "b", NBSP, "b", NBSP, "c">>

(***************************************************************************)
(* C15: after a refresh that completes without error the editor carries    *)
(* exactly one decoration per line that has a fragment in the response,    *)
(* anchored at the end of that line, and none on any other line: a line    *)
(* decorated before and without fragments now is bare, and a null or empty *)
(* response leaves no decoration.                                          *)
(***************************************************************************)
\* the refresh of this editor that finished last completed without error
Completed(editor) == Rendered(editor) \/ applied[editor].kind = "null"

\* the lines of the response that have a fragment
FragmentLines(editor) ==
  { applied[editor].hints[i].line :
      i \in { j \in 1..Len(applied[editor].hints) : HasLabel(applied[editor].hints[j]) } }

C15_OneDecorationPerFragmentLine ==
  \A editor \in Editors :
     Completed(editor) =>
       /\ DecoratedLines(editorDecorations[editor]) = FragmentLines(editor)
       /\ \A d, e \in 1..Len(editorDecorations[editor]) :
             editorDecorations[editor][d].line = editorDecorations[editor][e].line => d = e
       /\ \A d \in 1..Len(editorDecorations[editor]) :
             LET dec == editorDecorations[editor][d]
             IN  dec.character = DocumentLines[editor][dec.line + 1]

\* line 0 was decorated before; the new response has two fragments, both on
\* line 1, and line 0 is bare
C15_Witness ==
  \E editor \in Editors :
     /\ Rendered(editor)
     /\ 0 \in applied[editor].before
     /\ Len(FragmentsOn(editor, 1)) = 2
     /\ DecoratedLines(editorDecorations[editor]) = {1}
     /\ Len(editorDecorations[editor]) = 1

\* line 0 was decorated before a null response
C15_WitnessNull ==
  \E editor \in Editors :
     /\ applied[editor].kind = "null"
     /\ 0 \in applied[editor].before
     /\ editorDecorations[editor] = <<>>

(***************************************************************************)
(* C16: with alignment column A, line length L and minimum padding P the   *)
(* margin of a hint is A - L when A > 0 and L < A, and P otherwise:        *)
(* A = 40, L = 10 gives 30; A = 40, L = 45 gives P; L = A gives P; A = 0   *)
(* gives P for every L.                                                    *)
(***************************************************************************)
C16_Margin ==
  \A editor \in Editors :
     Rendered(editor) =>
       \A d \in 1..Len(editorDecorations[editor]) :
          LET dec == editorDecorations[editor][d]
              L == DocumentLines[editor][dec.line + 1]
              A == alignColumn
              P == minPadding
          IN  /\ (A > 0 /\ L < A) => dec.margin = A - L
              /\ ~(A > 0 /\ L < A) => dec.margin = P
              /\ (A = 40 /\ L = 10) => dec.margin = 30
              /\ (A = 40 /\ L = 45) => dec.margin = P
              /\ L = A => dec.margin = P
              /\ A = 0 => dec.margin = P

\* A = 40: the line of 10 columns gets 30, the line of 45 columns gets P
C16_Witness ==
  /\ alignColumn = 40
  /\ Rendered("a.masm")
  /\ Len(editorDecorations["a.masm"]) = 2
  /\ \E d, e \in 1..2 :
        /\ editorDecorations["a.masm"][d].line = 0
        /\ editorDecorations["a.masm"][d].margin = 30
        /\ editorDecorations["a.masm"][e].line = 1
        /\ editorDecorations["a.masm"][e].margin = minPadding

\* the line ends exactly at the alignment column
C16_WitnessAtColumn ==
  /\ alignColumn = 40
  /\ Rendered("b.masm")
  /\ Len(editorDecorations["b.masm"]) = 1
  /\ editorDecorations["b.masm"][1].character = 40
  /\ editorDecorations["b.masm"][1].margin = minPadding

\* alignment switched off
C16_WitnessNoAlignment ==
  /\ alignColumn = 0
  /\ Rendered("a.masm")
  /\ Len(editorDecorations["a.masm"]) = 2
  /\ \A d \in 1..2 : editorDecorations["a.masm"][d].margin = minPadding

(***************************************************************************)
(* C17: the left margin of every rendered hint is at least minimumPadding  *)
(* columns, for every alignment column, line length and minimum padding.   *)
(***************************************************************************)
C17_MarginAtLeastPadding ==
  \A editor \in Editors :
     Rendered(editor) =>
       \A d \in 1..Len(editorDecorations[editor]) :
          editorDecorations[editor][d].margin >= minPadding

(***************************************************************************)
(* C18: when the request is rejected or processing the response throws,    *)
(* the call ends normally and the editor is left without hint decorations; *)
(* no refresh leaves a partial set: the editor has the decorations of all  *)
(* fragment lines of the response or none.                                 *)
(***************************************************************************)
\* the refresh of this editor that finished last failed: the request was
\* rejected, or document.lineAt threw while the response was processed
Failed(editor) ==
  \/ applied[editor].kind = "rejected"
  \/ applied[editor].kind = "hints" /\ ~Rendered(editor)

C18_FailureClearsEditor ==
  \A editor \in Editors :
     /\ Failed(editor) => editorDecorations[editor] = <<>>
     /\ applied[editor].kind \in {"rejected", "null", "hints"} =>
          \/ editorDecorations[editor] = <<>>
          \/ DecoratedLines(editorDecorations[editor]) = FragmentLines(editor)

\* the editor was decorated before the request was rejected
C18_Witness ==
  \E editor \in Editors :
     /\ applied[editor].kind = "rejected"
     /\ applied[editor].before # {}
     /\ editorDecorations[editor] = <<>>

\* the editor was decorated before processing a response threw; the
\* response also has a fragment on a line of the document
C18_WitnessProcessing ==
  \E editor \in Editors :
     /\ applied[editor].kind = "hints"
     /\ ~Rendered(editor)
     /\ applied[editor].before # {}
     /\ FragmentsOn(editor, 0) # <<>>
     /\ editorDecorations[editor] = <<>>

(***************************************************************************)
(* C19: a call of updateInlayHintDecorations made while the hint type is   *)
(* 'none' or no client is running sends no request and gives the editor    *)
(* the empty decoration list.                                              *)
(***************************************************************************)
C19_DisabledSendsNothing ==
  [][ \A editor \in Editors :
        (UpdateStart(editor) /\ (~client \/ hintType = "none")) =>
          /\ started' = started
          /\ inflight' = inflight
          /\ editorDecorations'[editor] = <<>> ]_vars

\* a call with a hint type set and no client
C19_Witness ==
  \E editor \in Editors :
     /\ applied[editor].kind = "disabled"
     /\ hintType # "none"
     /\ ~client
     /\ started = 0
     /\ editorDecorations[editor] = <<>>

\* a call with a client and the hint type 'none'
C19_WitnessTypeNone ==
  \E editor \in Editors :
     /\ applied[editor].kind = "disabled"
     /\ hintType = "none"
     /\ client
     /\ started = 0

(***************************************************************************)
(* C20: for one editor the response to an older request never replaces     *)
(* the result of a newer request: the request whose result the editor      *)
(* shows is never followed by one that was issued before it.               *)
(***************************************************************************)
C20_NewerNeverOverwritten ==
  [][ \A editor \in Editors : applied'[editor].id >= applied[editor].id ]_vars

(***************************************************************************)
(* C21: the refresh cycles of two documents are independent: a step of a   *)
(* refresh of one document leaves the decorations and the cache entry of   *)
(* the other document as they were, and what an editor shows is the result *)
(* of its own last response, whatever was applied to the other editor and  *)
(* in whichever order.                                                     *)
(***************************************************************************)
\* documentDecorations.has(uri) and documentDecorations.get(uri)
CacheEntry(cache, uri) ==
  [ present |-> uri \in DOMAIN cache,
    list |-> IF uri \in DOMAIN cache THEN cache[uri] ELSE <<>> ]

\* what the editor shows according to the last response of its own document
OwnResult(editor) ==
  IF applied[editor].kind # "hints" THEN <<>>
  ELSE LET result == decorationsOf(DocumentLines[editor], applied[editor].hints,
                                   alignColumn, minPadding)
       IN  IF result.threw THEN <<>> ELSE result.decorations

\* the step is one of a refresh of this editor: the call starts, or the
\* response to one of its requests arrives
RefreshStepOf(editor) ==
  \/ UpdateStart(editor)
  \/ \E req \in inflight :
        /\ req.editor = editor
        /\ inflight' = inflight \ {req}

C21_RefreshesIndependent ==
  /\ [](\A editor \in Editors : editorDecorations[editor] = OwnResult(editor))
  /\ [][ \A editor \in Editors :
            RefreshStepOf(editor) =>
              \A other \in Editors \ {editor} :
                 /\ editorDecorations'[other] = editorDecorations[other]
                 /\ CacheEntry(documentDecorations', other)
                      = CacheEntry(documentDecorations, other)
                 /\ applied'[other] = applied[other] ]_vars

\* both documents were refreshed while both requests were in flight, the
\* second request answered first, and both editors show decorations
C21_Witness ==
  /\ applied["a.masm"].id = 1
  /\ applied["b.masm"].id = 2
  /\ applied["a.masm"].before = {}
  /\ inflight = {}
  /\ editorDecorations["a.masm"] # <<>>
  /\ editorDecorations["b.masm"] # <<>>
  /\ DOMAIN documentDecorations = Editors

(***************************************************************************)
(* C22: when no stdlib path is set and none can be inferred, the input box *)
(* for the stdlib location is shown at most once over all starts and        *)
(* restarts of the client, whatever the user answered.                      *)
(***************************************************************************)
C22_PromptsAtMostOnce ==
  ~resolvable => prompts <= 1

(***************************************************************************)
(* C25: getClient() returns a client only if its start() completed and it  *)
(* has not been stopped since; on every failure path startClient returns   *)
(* normally and leaves the client reference undefined.                     *)
(***************************************************************************)
\* what getClient() returns: 0 for undefined
getClient == clientRef

\* startClient of invocation h takes one of its failure paths
StartFailure(h) == StartAbandoned(h) \/ StartRejects(h)

\* invocation h has returned from startClient after this step
Returned(h) == [h EXCEPT !.pc = "started"] \in restarts'

\* as stated: after any failure path the reference is undefined
C25_FailureLeavesUndefined ==
  [][ \A h \in restarts : StartFailure(h) => getClient' = 0 ]_vars

\* amended: getClient() is a started, not stopped client and agrees with the
\* flag the hint refresh reads; a failure path returns and leaves the
\* reference as it was, which is undefined unless another invocation of the
\* restart command has assigned its client in between
C25_ClientOnlyAfterStart ==
  /\ [](/\ getClient # 0 => clientState[getClient] = "running"
        /\ client = (getClient # 0))
  /\ [][ \A h \in restarts : StartFailure(h) =>
           /\ Returned(h)
           /\ getClient' = getClient
           /\ (\A other \in 1..MaxStarts :
                 clientState[other] # "running") => getClient' = 0 ]_vars

\* a start was rejected, another was abandoned, and no client is referenced
C25_Witness ==
  /\ clientState[1] = "failed"
  /\ clientState[2] = "unused"
  /\ invocations = 2
  /\ restarts = {}
  /\ getClient = 0

\* a started client is referenced
C25_WitnessStarted ==
  /\ getClient = 1
  /\ clientState[1] = "running"

(***************************************************************************)
(* C28: at most one language client runs at any time: every client whose   *)
(* start() succeeded is the one getClient() returns or has had stop()      *)
(* called on it.                                                           *)
(***************************************************************************)
C28_NoUnreferencedClient ==
  \A k \in 1..MaxStarts : clientState[k] = "running" => getClient = k

(***************************************************************************)
(* C23: documentDecorations holds an entry for a document only while it is *)
(* open: once a document has been closed its entry is absent and stays     *)
(* absent, whatever refreshes and close events interleave.                 *)
(***************************************************************************)
C23_NoEntryAfterClose ==
  \A editor \in closed : editor \notin DOMAIN documentDecorations

(***************************************************************************)
(* C24: a toggle command for type T sets the hint type to "none" if it was *)
(* T and to T otherwise, so that toggling T twice from the other type ends *)
(* at "none"; when the resulting type is "none" all visible editors are    *)
(* cleared and the cache emptied, otherwise all visible MASM editors are   *)
(* refreshed.                                                              *)
(***************************************************************************)
\* the step is the invocation of a toggle command
ToggleInvoked == Len(toggles') = Len(toggles) + 1

\* the step is toggle i clearing or refreshing the editors
ToggleApplied(i) == ~toggles[i].done /\ toggles'[i].done

\* the editors a call of updateAllVisibleEditors started in this step will
\* refresh
EditorsToRefresh(loop) == { loop.remaining[k] : k \in 1..Len(loop.remaining) }

\* the other type than T
OtherType(T) == CHOOSE type \in ToggleTargets : type # T

C24_WitnessEnabled ==
  /\ Len(toggles) = 1
  /\ toggles[1].before = "none"
  /\ toggles[1].done
  /\ hintType = "description"
  /\ loops = {}
  /\ \A editor \in Editors : editorDecorations[editor] # <<>>

(***************************************************************************)
(* C26: whenever a call of updateInlayHintDecorations for an editor has    *)
(* returned, the documentDecorations entry of the document equals the list *)
(* the call last applied to the editor, also on the disabled path and on   *)
(* the error path, where the editor is cleared.  An absent entry is taken  *)
(* as the empty list.                                                      *)
(***************************************************************************)
C26_CacheMirrorsRendered ==
  \A editor \in Editors :
     applied[editor].kind # "none" =>
        CacheEntry(documentDecorations, editor).list = editorDecorations[editor]

(***************************************************************************)
(* C27: once a toggle command has set the hint type to "none" and cleared  *)
(* the decorations, no editor shows hint decorations until the hint type   *)
(* is changed.                                                             *)
(***************************************************************************)
\* the last toggle command set the type to "none" and has cleared the editors
ToggledOff ==
  /\ toggles # <<>>
  /\ toggles[Len(toggles)].after = "none"
  /\ toggles[Len(toggles)].done
  /\ hintType = "none"

C27_NothingShownWhileOff ==
  ToggledOff => \A editor \in Editors \ closed : editorDecorations[editor] = <<>>

(***************************************************************************)
(* C29: every text change to a visible MASM document is eventually         *)
(* followed by a hint refresh of its editor that starts after the change,  *)
(* also when another MASM document is edited within the debounce window.   *)
(***************************************************************************)
C29_EveryChangeRefreshed ==
  \A editor \in Editors : dirty[editor] ~> ~dirty[editor]

(***************************************************************************)
(* C30: a classified capture, or a per-line piece of a multi-line capture, *)
(* with positive length is missing from the output only if its column      *)
(* range overlaps a token already emitted on the same line from a capture  *)
(* earlier in sort order; the claimed ranges are exactly the ranges of the *)
(* emitted tokens, so a skipped capture never blocks a later one.          *)
(***************************************************************************)
\* the range a pushed token occupies
RangeOfPushed(t) ==
  [row |-> t.line, startCol |-> t.char, endCol |-> t.char + t.length]

\* the range of a token of the returned list
RangeOfEmitted(t) ==
  [row |-> t.line, startCol |-> t.startChar, endCol |-> t.startChar + t.length]

EmittedRanges == { RangeOfEmitted(Emitted[t]) : t \in 1..Len(Emitted) }

ClaimedRanges == { processedPositions[q] : q \in 1..Len(processedPositions) }

\* candidate p of capture c is in the output with the classification of c
EmittedAs(c, p) ==
  \E t \in 1..Len(Emitted) :
     /\ RangeOfEmitted(Emitted[t]) = p
     /\ Emitted[t].tokenType = getTokenMapping(c.name).type

\* candidate p meets a token emitted from one of the captures walked before
BlockedBy(claimed, p) ==
  \E q \in 1..Len(claimed) :
     /\ claimed[q].row = p.row
     /\ RangesMeet(p.startCol, p.endCol, claimed[q].startCol, claimed[q].endCol)
     /\ claimed[q] \in EmittedRanges

\* the candidate ranges of the k-th capture in sort order that have a
\* positive length
PositiveCandidates(k) ==
  LET c == sortCaptures(captures)[k]
      all == Candidates(c)
  IN  IF Classified(c)
      THEN { all[i] : i \in { j \in DOMAIN all : all[j].endCol > all[j].startCol } }
      ELSE {}

C30_DroppedOnlyForCause ==
  Resolved =>
    /\ Len(processedPositions) = Len(builderData)
    /\ \A i \in 1..Len(builderData) :
          processedPositions[i] = RangeOfPushed(builderData[i])
    /\ ClaimedRanges = EmittedRanges
    /\ \A k \in 1..Len(captures) :
          \A p \in PositiveCandidates(k) :
             \/ EmittedAs(sortCaptures(captures)[k], p)
             \/ BlockedBy(WalkUpTo(k - 1).processed, p)

\* the second capture in sort order is dropped for meeting the first, and the
\* third, which meets only the dropped one, is emitted
C30_Witness ==
  /\ Resolved
  /\ Len(captures) = 3
  /\ \E p2 \in PositiveCandidates(2), p3 \in PositiveCandidates(3) :
        /\ ~EmittedAs(sortCaptures(captures)[2], p2)
        /\ p2 \notin EmittedRanges
        /\ p3.row = p2.row
        /\ RangesMeet(p2.startCol, p2.endCol, p3.startCol, p3.endCol)
        /\ EmittedAs(sortCaptures(captures)[3], p3)

\* a multi-line capture loses one piece and keeps another
C30_WitnessPiece ==
  /\ Resolved
  /\ \E k \in 1..Len(captures) :
        /\ MultiLineAt(k)
        /\ \E p, r \in PositiveCandidates(k) :
              /\ p \notin EmittedRanges
              /\ EmittedAs(sortCaptures(captures)[k], r)

====
